---- MODULE Spec2Model ----
(***************************************************************************)
(* Zip-code geocoding cache and radius search of InterTalentPortal.        *)
(*                                                                         *)
(* Part 1 models scripts/import-to-ray-test-accurate.ts: the in-memory     *)
(* zipCache, its JSON file, getZipCoordinates and the pre-fetch loop of    *)
(* importData.  Spec drives loadZipCache / saveZipCache /                  *)
(* getZipCoordinates in any order, one call at a time, as a caller that    *)
(* awaits each call may; SpecImport is importData itself.                  *)
(*                                                                         *)
(* Part 2 models the three radius queries of the geospatial performance   *)
(* test (runTests) and the radius search by center zip; SpecRadius runs    *)
(* them against small tables.                                              *)
(*                                                                         *)
(* Part 3 models the GET handler of /api/professions and its module-level  *)
(* cache (SpecProfessions).                                                *)
(*                                                                         *)
(* Part 4 models two client components: LoadingManager with the search     *)
(* store's isLoading (SpecLoading, FairSpecLoading) and RequestTalentModal *)
(* under InjectTalentModal (SpecModal).                                    *)
(*                                                                         *)
(* A JavaScript string is a sequence of one-character strings, a number is *)
(* the decimal text that denotes it, NaN / null / undefined are the        *)
(* tokens below.                                                           *)
(***************************************************************************)
EXTENDS Integers, Sequences, FiniteSets, TLC

VARIABLES
    zipCache,       \* Map<string, ZipCoordinates | null>: a function on the keys present
    disk,           \* content of ZIP_CACHE_FILE
    inflight,       \* the call of getZipCoordinates awaiting its fetch: <<>> or <<zipCode>>
    calls,          \* call-count instrumentation: remote calls issued per zip5
    last,           \* the operation that completed last and what it returned
    flushed,        \* the map as it was when saveZipCache last wrote the file
    pc,             \* position of importData
    records,        \* the ZipCode column of the parsed CSV, in file order
    uncachedZips,   \* importData's uncachedZips array
    cursor,         \* index of the zip the pre-fetch loop is at (1-based)
    fetched,        \* importData's counter of resolved zips
    failed,         \* importData's counter of unresolved zips
    loadedKeys,     \* keys zipCache held when the pre-fetch loop started
    rowIndex,       \* number of CSV rows the insert loop has processed
    inserts,        \* the INSERT statements issued: their ZipCode and GeoLocation
    inserted,       \* importData's counter of rows inserted
    errors,         \* importData's counter of rows whose INSERT failed
    withGeo,        \* importData's counter of rows given a geography point
    withoutGeo,     \* importData's counter of rows given NULL
    table,          \* rows of RayTestShowcase: ZipCode and GeoLocation
    rpc,            \* position of runTests
    result1,        \* recordset of TEST 1 (native STDistance)
    result2,        \* recordset of TEST 2 (bounding box + STDistance)
    result3,        \* recordset of TEST 3 (distance computed per row)
    plan,           \* outcome of the last radius search by center zip
    approxZip,      \* argument of the last getApproximateLocation call
    approxCoords,   \* what that call returned
    pointA,         \* first coordinate the distance expression was applied to
    pointB,         \* second coordinate
    distance_miles, \* value of the distance expression for pointA, pointB
    clock,          \* Date.now() of the web server, in milliseconds
    cachedProfessions,  \* /api/professions: the cached list or null
    cacheTimestamp,     \* /api/professions: cacheTimestamp
    cachedAt,       \* the clock when cachedProfessions was last assigned
    requests,       \* GET requests awaiting db.getProfessionTypes(): their now
    response,       \* the response GET returned last
    dbReads,        \* calls of db.getProfessionTypes() so far
    lmMounted,      \* LoadingManager is mounted
    isLoading,      \* the search store's isLoading
    searchParams,   \* useSearchParams().toString() of the current URL
    previousSearchParams,   \* LoadingManager: previousSearchParams.current
    seenDeps,       \* searchParams and isLoading of the last effects run
    rafOuter,       \* an outer requestAnimationFrame callback is queued
    rafInner,       \* an inner requestAnimationFrame callback is queued
    open,           \* InjectTalentModal: open (a RequestTalentModal is mounted)
    instance,       \* which RequestTalentModal instance is or was last mounted
    isSubmitting,   \* RequestTalentModal: isSubmitting of the mounted instance
    status,         \* RequestTalentModal: status of the mounted instance
    posts,          \* POSTs to /api/request-talent in flight: the issuing instance
    closeTimers     \* setTimeout(() => onClose(), 1200) callbacks not yet run

vars == <<zipCache, disk, inflight, calls, last, flushed, pc, records,
          uncachedZips, cursor, fetched, failed, loadedKeys, rowIndex, inserts,
          inserted, errors, withGeo, withoutGeo, table, rpc, result1, result2,
          result3, plan, approxZip, approxCoords, pointA, pointB,
          distance_miles, clock, cachedProfessions, cacheTimestamp, cachedAt,
          requests, response, dbReads, lmMounted, isLoading, searchParams,
          previousSearchParams, seenDeps, rafOuter, rafInner, open, instance,
          isSubmitting, status, posts, closeTimers>>

cacheVars == <<zipCache, disk, inflight, calls, last, flushed>>

radiusVars == <<table, rpc, result1, result2, result3, plan>>

rowVars == <<rowIndex, inserts, inserted, errors, withGeo, withoutGeo>>

importVars == <<pc, records, uncachedZips, cursor, fetched, failed, loadedKeys,
                rowVars>>

functionVars == <<approxZip, approxCoords, pointA, pointB, distance_miles>>

routeVars == <<clock, cachedProfessions, cacheTimestamp, cachedAt, requests,
               response, dbReads>>

\* the state of the programs a cache, import or radius step does not touch
loadingVars == <<lmMounted, isLoading, searchParams, previousSearchParams,
                 seenDeps, rafOuter, rafInner>>

modalVars == <<open, instance, isSubmitting, status, posts, closeTimers>>

uiVars == <<loadingVars, modalVars>>

restVars == <<functionVars, routeVars, uiVars>>

-----------------------------------------------------------------------------
(* Bounds *)

\* remote calls one test sequence may issue
MaxCalls == 3

\* rows of the CSV file
MaxRows == 3

-----------------------------------------------------------------------------
(* JavaScript values *)

NaN == "NaN"
Undefined == "undefined"
JsonNull == "null"

\* the null stored in zipCache and returned by getZipCoordinates
Null == [type |-> "null"]

Min(a, b) == IF a < b THEN a ELSE b

Range(seq) == {seq[i] : i \in 1..Len(seq)}

\* String.prototype.substring(0, n)
Substring0(s, n) == SubSeq(s, 1, Min(n, Len(s)))

\* zipCode.substring(0, 5)
Zip5(zipCode) == Substring0(zipCode, 5)

\* the decimal texts the remote source sends for a well-formed place
NumericTexts == {"40.97", "-81.85", "41.14", "-81.86"}

\* parseFloat: the number a decimal text denotes, NaN for any other input
ParseFloat(s) == IF s \in NumericTexts THEN s ELSE NaN

-----------------------------------------------------------------------------
(* Inputs: zip codes and what the remote source may answer *)

Z44289 == <<"4", "4", "2", "8", "9">>
Z44289Plus4 == <<"4", "4", "2", "8", "9", "-", "1", "2", "3", "4">>
Z44256 == <<"4", "4", "2", "5", "6">>
Z00000 == <<"0", "0", "0", "0", "0">>
Z12 == <<"1", "2">>
ZEmpty == <<>>

\* arguments the callers of Spec pass to getZipCoordinates
CallZips == {Z44289, Z44289Plus4, Z12}

\* ZipCode cells of the CSV rows of SpecImport: a ZIP+4, a 5-digit zip, a
\* short one and an empty cell
CsvZips == {Z44289Plus4, Z44256, Z12, ZEmpty}

Keys == {Zip5(z) : z \in CallZips \cup (CsvZips \ {ZEmpty})} \cup {Z00000}

\* data.places[0] of a well-formed answer
GoodPlace(zip5) ==
    IF zip5 = Z44256
    THEN [latitude |-> "41.14", longitude |-> "-81.86",
          placeName |-> "Medina", stateAbbr |-> "OH"]
    ELSE [latitude |-> "40.97", longitude |-> "-81.85",
          placeName |-> "Sterling", stateAbbr |-> "OH"]

\* a place whose latitude is not a decimal text
BadLatPlace(zip5) == [GoodPlace(zip5) EXCEPT !.latitude = "n/a"]

\* a place that carries no 'place name' / 'state abbreviation'
BarePlace(zip5) ==
    [GoodPlace(zip5) EXCEPT !.placeName = Undefined, !.stateAbbr = Undefined]

\* bodies response.json() may meet
Bodies(zip5) ==
    {[kind |-> "invalid"],                         \* not JSON: json() rejects
     [kind |-> "null"],                            \* the JSON text null
     [kind |-> "object", places |-> <<>>]}         \* {} or {"places": []}
    \cup {[kind |-> "object", places |-> <<p>>] :
            p \in {GoodPlace(zip5), BadLatPlace(zip5), BarePlace(zip5)}}

\* outcomes of await fetch(...): abort after the 5 s timer, a network
\* failure, or a response with a status
Responses(zip5) ==
    {[fetch |-> "abort"], [fetch |-> "error"]}
    \cup {[fetch |-> "response", ok |-> FALSE, status |-> s,
           body |-> [kind |-> "invalid"]] : s \in {404, 429}}
    \cup {[fetch |-> "response", ok |-> TRUE, status |-> 200, body |-> b] :
            b \in Bodies(zip5)}

\* one outcome for each way getZipCoordinates ends: the catch branch, the
\* null it stores for a status that is not ok, the coordinates of a place
BranchResponses(zip5) ==
    {[fetch |-> "abort"],
     [fetch |-> "response", ok |-> FALSE, status |-> 404,
      body |-> [kind |-> "invalid"]],
     [fetch |-> "response", ok |-> TRUE, status |-> 200,
      body |-> [kind |-> "object", places |-> <<GoodPlace(zip5)>>]]}

-----------------------------------------------------------------------------
(* getZipCoordinates *)

\* the ZipCoordinates literal built from data.places[0]
Coords(place) ==
    [type |-> "coords",
     lat |-> ParseFloat(place.latitude),
     lng |-> ParseFloat(place.longitude),
     city |-> place.placeName,
     state |-> place.stateAbbr]

\* zipCache.has(zip5)
Has(cache, zip5) == zip5 \in DOMAIN cache

\* a set that starts a new map: the other entries are gone
MapSetAlone(cache, zip5, v) == [k \in {zip5} |-> v]

\* zipCache.set(zip5, v)
MapSet(cache, zip5, v) ==
    [k \in DOMAIN cache \cup {zip5} |-> IF k = zip5 THEN v ELSE cache[k]]

\* v || null
OrNull(v) == IF v = Null THEN Null ELSE v

\* milliseconds getZipCoordinates waits before its fetch
RateLimitDelay == 100

\* the part of getZipCoordinates after await fetch: what it stores and returns
\* for response r; threw is the catch branch
AfterFetch(cache, zip5, r) ==
    IF r.fetch # "response"
    THEN [cache |-> cache, value |-> Null, threw |-> TRUE]
    ELSE IF r.ok /\ r.body.kind \in {"invalid", "null"}
    THEN [cache |-> cache, value |-> Null, threw |-> TRUE]
    ELSE IF r.ok /\ Len(r.body.places) > 0
    THEN [cache |-> MapSet(cache, zip5, Coords(r.body.places[1])),
          value |-> Coords(r.body.places[1]), threw |-> FALSE]
    ELSE [cache |-> MapSet(cache, zip5, Null), value |-> Null, threw |-> FALSE]

\* getZipCoordinates without the cache check: every call goes to the network
GetZipCoordinatesCallNoLookup(zipCode) ==
    LET zip5 == Zip5(zipCode) IN
    /\ inflight = <<>>
    /\ inflight' = <<zipCode>>
    /\ calls' = [calls EXCEPT ![zip5] = @ + 1]
    /\ last' = [op |-> "fetch", zip |-> zipCode, value |-> Null, remote |-> TRUE,
                delay |-> RateLimitDelay]
    /\ UNCHANGED <<zipCache, disk, flushed>>

\* getZipCoordinates(zipCode) up to its first suspension: a cache hit returns,
\* a miss waits 100 ms and issues the fetch
GetZipCoordinatesCall(zipCode) ==
    LET zip5 == Zip5(zipCode) IN
    /\ inflight = <<>>
    /\ IF Has(zipCache, zip5)
       THEN /\ last' = [op |-> "resolve", zip |-> zipCode,
                        value |-> OrNull(zipCache[zip5]), remote |-> FALSE,
                        delay |-> 0]
            /\ UNCHANGED <<inflight, calls>>
       ELSE /\ inflight' = <<zipCode>>
            /\ calls' = [calls EXCEPT ![zip5] = @ + 1]
            /\ last' = [op |-> "fetch", zip |-> zipCode,
                        value |-> Null, remote |-> TRUE,
                        delay |-> RateLimitDelay]
    /\ UNCHANGED <<zipCache, disk, flushed>>

\* getZipCoordinates(inflight[1]) resumed with the outcome r of its fetch
GetZipCoordinatesReturn(r) ==
    LET zip5 == Zip5(inflight[1])
        out == AfterFetch(zipCache, zip5, r) IN
    /\ zipCache' = out.cache
    /\ inflight' = <<>>
    /\ last' = [op |-> "resolve", zip |-> inflight[1], value |-> out.value,
                remote |-> TRUE, response |-> r, delay |-> RateLimitDelay]
    /\ UNCHANGED <<disk, calls, flushed>>

-----------------------------------------------------------------------------
(* loadZipCache / saveZipCache *)

\* JSON.stringify of one property value: NaN becomes null
StringifyNumber(v) == IF v = NaN THEN JsonNull ELSE v

\* the properties of a ZipCoordinates object JSON.stringify writes: one whose
\* value is undefined is left out
WrittenFields(coords) == {f \in DOMAIN coords \ {"type"} : coords[f] # Undefined}

\* JSON.stringify of one cache value
StringifyEntry(v) ==
    IF v = Null THEN [json |-> "null"]
    ELSE [f \in WrittenFields(v) \cup {"json"} |->
            IF f = "json" THEN "object"
            ELSE IF f \in {"lat", "lng"} THEN StringifyNumber(v[f]) ELSE v[f]]

\* JSON.parse of one stored value, as loadZipCache puts it in the map
ParseEntry(j) ==
    IF j.json = "null" THEN Null
    ELSE [f \in (DOMAIN j \ {"json"}) \cup {"type"} |->
            IF f = "type" THEN "coords" ELSE j[f]]

\* the text saveZipCache writes for a map
StringifyCache(cache) == [k \in DOMAIN cache |-> StringifyEntry(cache[k])]

\* the file states: absent, text JSON.parse rejects, the text null, an object
DiskMissing == [kind |-> "missing"]
DiskUnparsable == [kind |-> "unparsable"]
DiskNull == [kind |-> "null"]
DiskObject(data) == [kind |-> "object", data |-> data]

\* loadZipCache without its try/catch: a parse failure escapes
LoadOutcomeNoCatch(cache, d, readFails) ==
    IF d.kind = "missing" THEN [cache |-> cache, threw |-> FALSE]
    ELSE IF readFails \/ d.kind \in {"unparsable", "null"}
    THEN [cache |-> cache, threw |-> TRUE]
    ELSE [cache |-> [k \in DOMAIN cache \cup DOMAIN d.data |->
                       IF k \in DOMAIN d.data THEN ParseEntry(d.data[k])
                       ELSE cache[k]],
          threw |-> FALSE]

\* loadZipCache() on file d: the map it leaves and whether an exception
\* escapes it.  existsSync guards the read; readFileSync (readFails),
\* JSON.parse (unparsable text) and Object.entries (the text null) throw
\* inside the try, whose catch only logs
LoadOutcome(cache, d, readFails) ==
    IF d.kind = "missing" THEN [cache |-> cache, threw |-> FALSE]
    ELSE IF readFails \/ d.kind \in {"unparsable", "null"}
    THEN [cache |-> cache, threw |-> FALSE]
    ELSE [cache |-> [k \in DOMAIN cache \cup DOMAIN d.data |->
                       IF k \in DOMAIN d.data THEN ParseEntry(d.data[k])
                       ELSE cache[k]],
          threw |-> FALSE]

\* the keys a file holds
StoredKeys(d) == IF d.kind = "object" THEN DOMAIN d.data ELSE {}

\* a save that keeps what the file already held: read, merge, write
SavedDiskMerge(cache, d) ==
    IF d.kind # "object" THEN DiskObject(StringifyCache(cache))
    ELSE DiskObject([k \in DOMAIN cache \cup DOMAIN d.data |->
                       IF k \in DOMAIN cache THEN StringifyEntry(cache[k])
                       ELSE d.data[k]])

\* a write that does not take the whole map: one entry is missing from the file
SavedDiskPartial(cache, d) ==
    IF DOMAIN cache = {} THEN DiskObject(StringifyCache(cache))
    ELSE LET k == CHOOSE x \in DOMAIN cache : TRUE IN
         DiskObject([j \in DOMAIN cache \ {k} |-> StringifyEntry(cache[j])])

\* the file after saveZipCache(): writeFileSync replaces the whole content
SavedDisk(cache, d) == DiskObject(StringifyCache(cache))

loadZipCache ==
    \E readFails \in BOOLEAN :
        LET out == LoadOutcome(zipCache, disk, readFails) IN
        /\ zipCache' = out.cache
        /\ last' = [op |-> "load", threw |-> out.threw]
        /\ UNCHANGED <<disk, inflight, calls, flushed>>

\* saveZipCache(): one synchronous step; writeFileSync is in no try block,
\* so a write that fails (writeFails: the file cannot be opened) throws out
\* of saveZipCache and leaves the file as it was
saveZipCache ==
    \E writeFails \in BOOLEAN :
        /\ disk' = IF writeFails THEN disk ELSE SavedDisk(zipCache, disk)
        /\ flushed' = IF writeFails THEN flushed ELSE zipCache
        /\ last' = [op |-> "save", threw |-> writeFails,
                    dropped |-> StoredKeys(disk) \ StoredKeys(disk')]
        /\ UNCHANGED <<zipCache, inflight, calls>>

-----------------------------------------------------------------------------
(* Spec: the cache operations under any sequence of calls *)

EmptyMap == <<>>

NoCalls == [k \in Keys |-> 0]

RECURSIVE SumCalls(_, _)
SumCalls(c, ks) ==
    IF ks = {} THEN 0
    ELSE LET k == CHOOSE x \in ks : TRUE IN c[k] + SumCalls(c, ks \ {k})

TotalCalls == SumCalls(calls, Keys)

ImportIdle ==
    /\ pc = "idle"
    /\ records = <<>>
    /\ uncachedZips = <<>>
    /\ cursor = 1
    /\ fetched = 0
    /\ failed = 0
    /\ loadedKeys = {}
    /\ rowIndex = 0
    /\ inserts = <<>>
    /\ inserted = 0
    /\ errors = 0
    /\ withGeo = 0
    /\ withoutGeo = 0

RadiusIdle ==
    /\ table = <<>>
    /\ rpc = "idle"
    /\ result1 = <<>>
    /\ result2 = <<>>
    /\ result3 = <<>>
    /\ plan = [kind |-> "none"]

\* no lookup in the prefix table and no distance computed yet
FunctionsIdle ==
    /\ approxZip = <<>>
    /\ approxCoords = [type |-> "none"]
    /\ pointA = [lat |-> 0, lng |-> 0]
    /\ pointB = [lat |-> 0, lng |-> 0]
    /\ distance_miles = "none"

\* the web server as it starts: no list cached, no request
RouteIdle ==
    /\ clock = 0
    /\ cachedProfessions = Null
    /\ cacheTimestamp = 0
    /\ cachedAt = 0
    /\ requests = <<>>
    /\ response = [status |-> 0]
    /\ dbReads = 0

\* LoadingManager not mounted, nothing loading, the URL without parameters
LoadingIdle ==
    /\ lmMounted = FALSE
    /\ isLoading = FALSE
    /\ searchParams = ""
    /\ previousSearchParams = ""
    /\ seenDeps = [searchParams |-> "", isLoading |-> FALSE]
    /\ rafOuter = FALSE
    /\ rafInner = FALSE

\* InjectTalentModal as first rendered: no modal
ModalIdle ==
    /\ open = FALSE
    /\ instance = 0
    /\ isSubmitting = FALSE
    /\ status = "idle"
    /\ posts = <<>>
    /\ closeTimers = 0

UiIdle == LoadingIdle /\ ModalIdle

RestIdle == FunctionsIdle /\ RouteIdle /\ UiIdle

Init ==
    /\ zipCache = EmptyMap
    /\ disk \in {DiskMissing, DiskUnparsable, DiskNull}
    /\ inflight = <<>>
    /\ calls = NoCalls
    /\ last = [op |-> "none"]
    /\ flushed = EmptyMap
    /\ ImportIdle
    /\ RadiusIdle
    /\ RestIdle

Load ==
    /\ UNCHANGED radiusVars
    /\ inflight = <<>>
    /\ loadZipCache
    /\ UNCHANGED importVars
    /\ UNCHANGED restVars

\* saveZipCache() may be called while a getZipCoordinates call is awaiting
\* its fetch: the call's zipCache.set comes after the write
Save ==
    /\ UNCHANGED radiusVars
    /\ saveZipCache
    /\ UNCHANGED importVars
    /\ UNCHANGED restVars

Resolve ==
    /\ UNCHANGED radiusVars
    /\ TotalCalls < MaxCalls
    /\ \E z \in CallZips : GetZipCoordinatesCall(z)
    /\ UNCHANGED importVars
    /\ UNCHANGED restVars

Respond ==
    /\ UNCHANGED radiusVars
    /\ inflight # <<>>
    /\ \E r \in Responses(Zip5(inflight[1])) : GetZipCoordinatesReturn(r)
    /\ UNCHANGED importVars
    /\ UNCHANGED restVars

\* the process ends and the script is started again: the map is module state
Restart ==
    /\ inflight = <<>>
    /\ zipCache' = EmptyMap
    /\ last' = [op |-> "restart"]
    /\ UNCHANGED <<disk, inflight, calls, flushed>>
    /\ UNCHANGED importVars
    /\ UNCHANGED radiusVars
    /\ UNCHANGED restVars

Next == Load \/ Save \/ Resolve \/ Respond \/ Restart

Spec == Init /\ [][Next]_vars

-----------------------------------------------------------------------------
(* getApproximateLocation (scripts/import-to-ray-test.ts) *)

Digits == <<"0", "1", "2", "3", "4", "5", "6", "7", "8", "9">>

IsDigit(c) == \E d \in 1..10 : Digits[d] = c

DigitValue(c) == (CHOOSE d \in 1..10 : Digits[d] = c) - 1

\* parseInt(s): the number its leading digits denote, NaN when it has none
RECURSIVE ParseIntFrom(_, _, _)
ParseIntFrom(s, i, acc) ==
    IF i > Len(s) \/ ~IsDigit(s[i]) THEN acc
    ELSE ParseIntFrom(s, i + 1, acc * 10 + DigitValue(s[i]))

ParseInt(s) == IF Len(s) = 0 \/ ~IsDigit(s[1]) THEN -1 ELSE ParseIntFrom(s, 1, 0)

IsNaNInt(n) == n < 0

\* ZIP_RANGES: <<start, end, lat, lng>> in the order the object lists them
ZIP_RANGES ==
    <<
        <<10, 27, "42.0", "-71.0">>,
        <<28, 29, "41.8", "-71.4">>,
        <<30, 38, "43.0", "-71.5">>,
        <<39, 49, "44.5", "-69.0">>,
        <<50, 59, "44.0", "-72.7">>,
        <<60, 69, "41.6", "-72.7">>,
        <<70, 89, "40.7", "-74.2">>,
        <<100, 149, "40.7", "-74.0">>,
        <<150, 196, "39.9", "-75.2">>,
        <<197, 199, "39.3", "-76.6">>,
        <<200, 205, "38.9", "-77.0">>,
        <<220, 246, "37.5", "-77.5">>,
        <<247, 268, "35.8", "-78.6">>,
        <<270, 289, "33.7", "-84.4">>,
        <<290, 299, "33.5", "-86.8">>,
        <<300, 319, "33.75", "-84.39">>,
        <<320, 339, "28.5", "-81.4">>,
        <<340, 349, "33.5", "-86.8">>,
        <<350, 369, "32.3", "-86.3">>,
        <<370, 385, "36.17", "-86.78">>,
        <<386, 397, "35.15", "-90.05">>,
        <<398, 399, "38.2", "-85.7">>,
        <<400, 427, "38.2", "-85.7">>,
        <<430, 432, "39.96", "-82.99">>,
        <<433, 436, "39.76", "-84.19">>,
        <<437, 438, "41.08", "-81.52">>,
        <<440, 449, "41.5", "-81.7">>,
        <<450, 458, "39.76", "-86.16">>,
        <<460, 469, "39.76", "-86.16">>,
        <<470, 479, "41.9", "-87.6">>,
        <<480, 499, "42.3", "-83.0">>,
        <<500, 528, "41.6", "-93.6">>,
        <<530, 549, "43.1", "-89.4">>,
        <<550, 567, "44.9", "-93.3">>,
        <<570, 577, "43.5", "-96.7">>,
        <<580, 588, "46.8", "-100.8">>,
        <<590, 599, "46.6", "-112.0">>,
        <<600, 629, "39.8", "-89.6">>,
        <<630, 658, "38.6", "-90.2">>,
        <<660, 679, "39.1", "-94.6">>,
        <<680, 699, "41.3", "-96.0">>,
        <<700, 714, "29.95", "-90.07">>,
        <<715, 729, "30.45", "-91.15">>,
        <<730, 749, "35.5", "-97.5">>,
        <<750, 759, "32.78", "-96.8">>,
        <<760, 769, "32.75", "-97.33">>,
        <<770, 779, "29.76", "-95.37">>,
        <<780, 789, "29.42", "-98.49">>,
        <<790, 799, "31.76", "-106.49">>,
        <<800, 816, "39.7", "-104.9">>,
        <<820, 831, "42.9", "-106.3">>,
        <<832, 838, "43.5", "-112.0">>,
        <<840, 847, "40.8", "-111.9">>,
        <<850, 865, "33.45", "-112.07">>,
        <<870, 884, "35.08", "-106.65">>,
        <<885, 895, "36.17", "-115.14">>,
        <<900, 918, "34.05", "-118.24">>,
        <<919, 921, "32.72", "-117.16">>,
        <<922, 928, "33.45", "-117.0">>,
        <<930, 935, "35.37", "-119.02">>,
        <<936, 966, "37.77", "-122.42">>,
        <<967, 968, "21.31", "-157.86">>,
        <<970, 979, "45.52", "-122.68">>,
        <<980, 994, "47.61", "-122.33">>,
        <<995, 999, "61.22", "-149.9">>
    >>

\* a split that gives every range an end one larger
RangeEndPlusOne(range) == range[2] + 1

\* const [start, end] = range.split('-').map(Number)
RangeStart(range) == range[1]
RangeEnd(range) == range[2]

\* the coords object of a range
RangeCoords(range) == [type |-> "coords", lat |-> range[3], lng |-> range[4]]

\* a scan that takes the end of a range as not part of it
RECURSIVE FirstRangeOpenEnd(_, _)
FirstRangeOpenEnd(prefix, i) ==
    IF i > Len(ZIP_RANGES) THEN Null
    ELSE IF prefix >= RangeStart(ZIP_RANGES[i]) /\ prefix < RangeEnd(ZIP_RANGES[i])
    THEN RangeCoords(ZIP_RANGES[i])
    ELSE FirstRangeOpenEnd(prefix, i + 1)

\* for (const [range, coords] of Object.entries(ZIP_RANGES)), from entry i on
RECURSIVE FirstRange(_, _)
FirstRange(prefix, i) ==
    IF i > Len(ZIP_RANGES) THEN Null
    ELSE IF prefix >= RangeStart(ZIP_RANGES[i]) /\ prefix <= RangeEnd(ZIP_RANGES[i])
    THEN RangeCoords(ZIP_RANGES[i])
    ELSE FirstRange(prefix, i + 1)

getApproximateLocation(zipCode) ==
    IF Len(zipCode) < 3 THEN Null
    ELSE LET prefix == ParseInt(Substring0(zipCode, 3)) IN
         IF IsNaNInt(prefix) THEN Null ELSE FirstRange(prefix, 1)

-----------------------------------------------------------------------------
(* SpecImport: importData, from loading the cache to saving it *)

\* every sequence of at most n cells
RowsUpTo(n) == UNION {[1..m -> CsvZips] : m \in 0..n}

InSeq(seq, x) == \E i \in 1..Len(seq) : seq[i] = x

RECURSIVE UniqueZipsFrom(_, _)
UniqueZipsFrom(recs, acc) ==
    IF recs = <<>> THEN acc
    ELSE LET zip5 == Zip5(Head(recs)) IN
         UniqueZipsFrom(Tail(recs),
                        IF Head(recs) # <<>> /\ ~InSeq(acc, zip5)
                        THEN Append(acc, zip5) ELSE acc)

RECURSIVE AllZipsFrom(_, _)
AllZipsFrom(recs, acc) ==
    IF recs = <<>> THEN acc
    ELSE AllZipsFrom(Tail(recs),
                     IF Head(recs) # <<>> THEN Append(acc, Zip5(Head(recs))) ELSE acc)

\* an array in place of the Set: a zip is listed once per row that has it
UniqueZipsNoDedup(recs) == AllZipsFrom(recs, <<>>)

\* Array.from(uniqueZips): the first five characters of every non-empty
\* ZipCode, each once, in order of first appearance
UniqueZips(recs) == UniqueZipsFrom(recs, <<>>)

\* Array.from(uniqueZips).filter((z) => !zipCache.has(z))
UncachedZips(recs, cache) == SelectSeq(UniqueZips(recs), LAMBDA z : ~Has(cache, z))

\* a NULL GeoLocation, and geography::Point(lat, lng, 4326)
NoGeo == [geo |-> "NULL"]
Point(lat, lng) == [geo |-> "point", lat |-> lat, lng |-> lng]

\* a row loop that takes the prefix table's coordinate when the map gives none
GeoQueryApproxFallback(cache, ZipCode) ==
    LET zip5 == Zip5(Substring0(ZipCode, 10))
        approx == getApproximateLocation(ZipCode) IN
    IF ZipCode # <<>> /\ Has(cache, zip5) /\ cache[zip5] # Null
    THEN Point(cache[zip5].lat, cache[zip5].lng)
    ELSE IF approx # Null THEN Point(approx.lat, approx.lng)
    ELSE NoGeo

\* geoQuery of the row loop: zipCode = ZipCode.substring(0, 10) || null,
\* zip5 = zipCode.substring(0, 5), coords = zipCache.get(zip5); a point when
\* coords is an object, NULL when it is null or undefined
GeoQuery(cache, ZipCode) ==
    LET zip5 == Zip5(Substring0(ZipCode, 10)) IN
    IF ZipCode # <<>> /\ Has(cache, zip5) /\ cache[zip5] # Null
    THEN Point(cache[zip5].lat, cache[zip5].lng)
    ELSE NoGeo

RowsIdle ==
    /\ rowIndex = 0
    /\ inserts = <<>>
    /\ inserted = 0
    /\ errors = 0
    /\ withGeo = 0
    /\ withoutGeo = 0

InitImport ==
    /\ zipCache = EmptyMap
    /\ disk \in {DiskMissing, DiskUnparsable}
    /\ inflight = <<>>
    /\ calls = NoCalls
    /\ last = [op |-> "none"]
    /\ flushed = EmptyMap
    /\ pc = "start"
    /\ records \in RowsUpTo(MaxRows)
    /\ uncachedZips = <<>>
    /\ cursor = 1
    /\ fetched = 0
    /\ failed = 0
    /\ loadedKeys = {}
    /\ RowsIdle
    /\ RadiusIdle
    /\ RestIdle

\* importData up to the pre-fetch loop: loadZipCache, read the CSV, collect
\* the unique zips and keep those the map has no entry for; when the CSV
\* file does not exist the script calls process.exit(1)
ImportLoad ==
    /\ UNCHANGED <<radiusVars, restVars>>
    /\ pc = "start"
    /\ loadZipCache
    /\ \E csvExists \in BOOLEAN :
         IF csvExists
         THEN /\ uncachedZips' = UncachedZips(records, zipCache')
              /\ loadedKeys' = DOMAIN zipCache'
              /\ pc' = IF Len(uncachedZips') > 0 THEN "prefetch" ELSE "connect"
         ELSE /\ pc' = "exited"
              /\ UNCHANGED <<uncachedZips, loadedKeys>>
    /\ cursor' = 1
    /\ fetched' = 0
    /\ failed' = 0
    /\ UNCHANGED <<records, rowVars>>

\* a loop that asks again for a zip whose lookup gave null
CountResultRetry(value) ==
    /\ fetched' = IF value # Null THEN fetched + 1 ELSE fetched
    /\ failed' = IF value # Null THEN failed ELSE failed + 1
    /\ cursor' = IF value # Null THEN cursor + 1 ELSE cursor
    /\ pc' = IF cursor' > Len(uncachedZips) THEN "save" ELSE "prefetch"

\* what the loop body does with the value getZipCoordinates returned
CountResult(value) ==
    /\ fetched' = IF value # Null THEN fetched + 1 ELSE fetched
    /\ failed' = IF value # Null THEN failed ELSE failed + 1
    /\ cursor' = cursor + 1
    /\ pc' = IF cursor + 1 > Len(uncachedZips) THEN "save" ELSE "prefetch"

\* for (const zip of uncachedZips) { coords = await getZipCoordinates(zip)
ImportFetch ==
    /\ UNCHANGED <<radiusVars, restVars>>
    /\ pc = "prefetch"
    /\ GetZipCoordinatesCall(uncachedZips[cursor])
    /\ IF inflight' # <<>>
       THEN pc' = "await" /\ UNCHANGED <<cursor, fetched, failed>>
       ELSE CountResult(last'.value)
    /\ UNCHANGED <<records, uncachedZips, loadedKeys, rowVars>>

\* a loop that writes the file after every zip it has an answer for
ImportResponseFlush ==
    /\ UNCHANGED <<radiusVars, restVars>>
    /\ pc = "await"
    /\ \E r \in BranchResponses(Zip5(inflight[1])) :
         LET out == AfterFetch(zipCache, Zip5(inflight[1]), r) IN
         /\ zipCache' = out.cache
         /\ inflight' = <<>>
         /\ last' = [op |-> "resolve", zip |-> inflight[1], value |-> out.value,
                     remote |-> TRUE, response |-> r, delay |-> RateLimitDelay]
         /\ disk' = SavedDisk(out.cache, disk)
         /\ flushed' = out.cache
         /\ UNCHANGED calls
    /\ CountResult(last'.value)
    /\ UNCHANGED <<records, uncachedZips, loadedKeys, rowVars>>

\* the awaited call returns; count it and go on with the next zip
ImportResponse ==
    /\ UNCHANGED <<radiusVars, restVars>>
    /\ pc = "await"
    /\ \E r \in BranchResponses(Zip5(inflight[1])) : GetZipCoordinatesReturn(r)
    /\ CountResult(last'.value)
    /\ UNCHANGED <<records, uncachedZips, loadedKeys, rowVars>>

\* saveZipCache() after the loop; an exception it throws rejects importData
\* and reaches the .catch(console.error) of the call
ImportSave ==
    /\ UNCHANGED <<radiusVars, restVars>>
    /\ pc = "save"
    /\ saveZipCache
    /\ pc' = IF last'.threw THEN "rejected" ELSE "connect"
    /\ UNCHANGED <<records, uncachedZips, cursor, fetched, failed, loadedKeys,
                   rowVars>>

\* what sql.connect, the table check and the DELETE may end in
ConnectOutcomes == {"connected", "connectFailed", "noTable", "queryFailed"}

\* importData from sql.connect to the start of the row loop: a failed
\* connect and a missing table call process.exit(1), a query that fails
\* rejects importData
ImportConnect ==
    /\ UNCHANGED <<radiusVars, restVars, cacheVars>>
    /\ pc = "connect"
    /\ \E outcome \in ConnectOutcomes :
         pc' = IF outcome = "connected"
               THEN (IF Len(records) > 0 THEN "rows" ELSE "verify")
               ELSE IF outcome = "queryFailed" THEN "rejected"
               ELSE "exited"
    /\ rowIndex' = 0
    /\ inserts' = <<>>
    /\ inserted' = 0
    /\ errors' = 0
    /\ withGeo' = 0
    /\ withoutGeo' = 0
    /\ UNCHANGED <<records, uncachedZips, cursor, fetched, failed, loadedKeys>>

\* rows per batch: 100 in the scripts, 2 here so that a CSV of MaxRows rows
\* spans more than one batch
BATCH_SIZE == 2

\* batches that share their last row with the next batch
RECURSIVE BatchOrderOverlap(_, _, _)
BatchOrderOverlap(n, size, i) ==
    IF i >= n THEN <<>>
    ELSE [k \in 1..(Min(i + size + 1, n) - i) |-> i + k]
            \o BatchOrderOverlap(n, size, i + size)

\* the positions (from 1) of the rows in the order the two nested loops
\* visit them: for (i = 0; i < n; i += size) for (row of slice(i, i + size))
RECURSIVE BatchOrder(_, _, _)
BatchOrder(n, size, i) ==
    IF i >= n THEN <<>>
    ELSE [k \in 1..(Min(i + size, n) - i) |-> i + k]
            \o BatchOrder(n, size, i + size)

\* the rows of the CSV in the order the import loop takes them
RowOrder == BatchOrder(Len(records), BATCH_SIZE, 0)

\* one row of the insert loop: build geoQuery, count it, await the INSERT;
\* a failed INSERT is caught and counted
ImportRow ==
    /\ UNCHANGED <<radiusVars, restVars, cacheVars>>
    /\ pc = "rows"
    /\ LET ZipCode == records[RowOrder[rowIndex + 1]]
           geoQuery == GeoQuery(zipCache, ZipCode) IN
       \E insertFails \in BOOLEAN :
          /\ inserts' = Append(inserts, [ZipCode |-> Substring0(ZipCode, 10),
                                         GeoLocation |-> geoQuery])
          /\ withGeo' = IF geoQuery # NoGeo THEN withGeo + 1 ELSE withGeo
          /\ withoutGeo' = IF geoQuery # NoGeo THEN withoutGeo ELSE withoutGeo + 1
          /\ inserted' = IF insertFails THEN inserted ELSE inserted + 1
          /\ errors' = IF insertFails THEN errors + 1 ELSE errors
    /\ rowIndex' = rowIndex + 1
    /\ pc' = IF rowIndex + 1 >= Len(RowOrder) THEN "verify" ELSE "rows"
    /\ UNCHANGED <<records, uncachedZips, cursor, fetched, failed, loadedKeys>>

\* the sample query and pool.close() after the loop
ImportVerify ==
    /\ UNCHANGED <<radiusVars, restVars, cacheVars>>
    /\ pc = "verify"
    /\ \E queryFails \in BOOLEAN : pc' = IF queryFails THEN "rejected" ELSE "done"
    /\ UNCHANGED <<records, uncachedZips, cursor, fetched, failed, loadedKeys,
                   rowVars>>

\* the process has ended (done, exited or rejected) and the script is run
\* again on the same CSV file
ImportRerun ==
    /\ UNCHANGED <<radiusVars, restVars>>
    /\ pc \in {"done", "exited", "rejected"}
    /\ zipCache' = EmptyMap
    /\ calls' = NoCalls
    /\ last' = [op |-> "restart"]
    /\ pc' = "start"
    /\ uncachedZips' = <<>>
    /\ cursor' = 1
    /\ fetched' = 0
    /\ failed' = 0
    /\ loadedKeys' = {}
    /\ rowIndex' = 0
    /\ inserts' = <<>>
    /\ inserted' = 0
    /\ errors' = 0
    /\ withGeo' = 0
    /\ withoutGeo' = 0
    /\ UNCHANGED <<disk, inflight, records, flushed>>

NextImport ==
    \/ ImportLoad
    \/ ImportFetch
    \/ ImportResponse
    \/ ImportSave
    \/ ImportConnect
    \/ ImportRow
    \/ ImportVerify
    \/ ImportRerun

SpecImport == InitImport /\ [][NextImport]_vars

\* the distinct 5-character zips of the CSV rows
CsvZipSet == {Zip5(records[i]) : i \in {j \in 1..Len(records) : records[j] # <<>>}}

\* the pre-fetch loop of this run is over
PrefetchDone == pc \in {"save", "connect"} /\ last.op # "restart" /\ last.op # "none"

\* C4: when the pre-fetch loop is over, the remote calls issued number the
\* unique zips of the CSV minus those the loaded map had an entry for
\* (N - K), one per uncached zip, and none went to a cached zip; this holds
\* whatever the calls returned, so also when all succeed.
C4_BatchCallCount ==
    PrefetchDone =>
        /\ TotalCalls = Cardinality(CsvZipSet) - Cardinality(CsvZipSet \cap loadedKeys)
        /\ \A k \in Keys : calls[k] = IF k \in CsvZipSet \ loadedKeys THEN 1 ELSE 0

\* three unique zips, one cached by an earlier run, two fetched with success
C4_Witness ==
    /\ pc = "connect"
    /\ Cardinality(CsvZipSet) = 3
    /\ Cardinality(CsvZipSet \cap loadedKeys) = 1
    /\ TotalCalls = 2
    /\ fetched = 2
    /\ failed = 0

\* C13: every row the accurate import has inserted has the point of the
\* coordinates zipCache holds for its 5-character zip when that entry is
\* not null, and NULL when the row has no zip, the map has no entry or the
\* entry is null: the prefix table's coordinate is never taken instead.
C13_PointOnlyFromCache ==
    \A i \in 1..Len(inserts) :
        LET ZipCode == records[i]
            zip5 == Zip5(ZipCode) IN
        IF ZipCode # <<>> /\ zip5 \in DOMAIN zipCache /\ zipCache[zip5] # Null
        THEN inserts[i].GeoLocation = Point(zipCache[zip5].lat, zipCache[zip5].lng)
        ELSE inserts[i].GeoLocation = NoGeo

\* a row whose zip the prefix table knows but the map has no entry for
\* (its lookup failed) went in with NULL, another row went in with a point
C13_Witness ==
    /\ \E i \in 1..Len(inserts) :
          /\ Zip5(records[i]) \notin DOMAIN zipCache
          /\ getApproximateLocation(records[i]) # Null
          /\ inserts[i].GeoLocation = NoGeo
    /\ \E j \in 1..Len(inserts) : inserts[j].GeoLocation # NoGeo

\* C16: importData never ends in process.exit and never lets an exception
\* out, and neither loadZipCache nor saveZipCache throws, whatever the file
\* system, the remote source and the database do.
C16_NoExitNoEscape ==
    /\ pc \notin {"exited", "rejected"}
    /\ last.op \in {"load", "save"} => ~last.threw

-----------------------------------------------------------------------------
(* The three radius queries of runTests *)

\* rows a table may hold
MaxTableRows == 2

RADIUS_MILES == 50

\* 1609.344 meters per mile, in millimeters
MillimetersPerMile == 1609344

\* radiusMeters = RADIUS_MILES * 1609.344, in millimeters
radiusMillimeters == RADIUS_MILES * MillimetersPerMile

\* centerLat = 41.01, centerLng = -81.84, in 1/1000 degree
centerLat == 41010
centerLng == -81840

\* Math.cos((centerLat * Math.PI) / 180), in 1/10000
CosCenterLat == 7546

MilesPerDegree == 69

\* latDelta = RADIUS_MILES / 69.0, in 1/1000 degree
latDelta == (RADIUS_MILES * 1000) \div MilesPerDegree

\* lngDelta = RADIUS_MILES / (69.0 * cos(centerLat)), in 1/1000 degree
lngDelta == (RADIUS_MILES * 1000 * 10000) \div (MilesPerDegree * CosCenterLat)

Z44870 == <<"4", "4", "8", "7", "0">>
Z43014 == <<"4", "3", "0", "1", "4">>
Z10001 == <<"1", "0", "0", "0", "1">>

\* the centroid the accurate import stores for a zip, in 1/1000 degree
Centroid(zip) ==
    CASE zip = Z44256 -> Point(41140, -81860)     \* Medina, OH
      [] zip = Z44870 -> Point(41450, -82710)     \* Sandusky, OH
      [] zip = Z43014 -> Point(40450, -82260)     \* Danville, OH
      [] zip = Z10001 -> Point(40750, -73990)     \* New York, NY

\* GeoLocation.STDistance(@center) in meters, as the database computes it on
\* the WGS 84 ellipsoid for the points above
STDistance(point) ==
    CASE point = Centroid(Z44256) -> 14535
      [] point = Centroid(Z44870) -> 87797
      [] point = Centroid(Z43014) -> 71597
      [] point = Centroid(Z10001) -> 662064

\* GeoLocation.STIntersects(@bbox): the point lies in the rectangle
\* center +- (latDelta, lngDelta)
STIntersectsBBox(point) ==
    /\ point.lat >= centerLat - latDelta
    /\ point.lat <= centerLat + latDelta
    /\ point.lng >= centerLng - lngDelta
    /\ point.lng <= centerLng + lngDelta

\* a CASE whose ELSE coordinate is close to the center (41.0, -81.8)
CaseDistanceNearDefault(zip) ==
    LET prefix == ParseInt(Substring0(zip, 3)) IN
    IF prefix >= 440 /\ prefix <= 449 THEN 3463
    ELSE IF prefix >= 430 /\ prefix <= 432 THEN 9443
    ELSE IF prefix >= 450 /\ prefix <= 458 THEN 24319
    ELSE 220

\* the value of 3959 * ACOS(...) of TEST 3, in 1/100 mile: the CASE on
\* LEFT(ZipCode, 3) picks one of four fixed coordinates
CaseDistance(zip) ==
    LET prefix == ParseInt(Substring0(zip, 3)) IN
    IF prefix >= 440 /\ prefix <= 449 THEN 3463         \* 41.5, -81.7
    ELSE IF prefix >= 430 /\ prefix <= 432 THEN 9443    \* 39.96, -82.99
    ELSE IF prefix >= 450 /\ prefix <= 458 THEN 24319   \* 39.76, -86.16
    ELSE 7029                                           \* 40.0, -82.0

\* ORDER BY dist: ascending, rows of equal distance in table order
RECURSIVE InsertByDistance(_, _, _, _)
InsertByDistance(seq, id, dist, i) ==
    IF i > Len(seq) THEN Append(seq, id)
    ELSE IF dist[id] < dist[seq[i]]
    THEN SubSeq(seq, 1, i - 1) \o <<id>> \o SubSeq(seq, i, Len(seq))
    ELSE InsertByDistance(seq, id, dist, i + 1)

\* the rows (by position in the table) that are in keep, ordered by dist
RECURSIVE SelectOrdered(_, _, _, _, _)
SelectOrdered(n, keep, dist, i, acc) ==
    IF i > n THEN acc
    ELSE SelectOrdered(n, keep, dist, i + 1,
                       IF i \in keep THEN InsertByDistance(acc, i, dist, 1) ELSE acc)

\* STDistance of every row that has a point
RowDistances(t) ==
    [i \in {j \in 1..Len(t) : t[j].GeoLocation # NoGeo} |-> STDistance(t[i].GeoLocation)]

\* TEST 1 without its ORDER BY: the rows come in table order
NativeQueryTableOrder(t) ==
    LET dist == RowDistances(t) IN
    SelectSeq([i \in 1..Len(t) |-> i],
              LAMBDA i : i \in DOMAIN dist /\ dist[i] * 1000 <= radiusMillimeters)

\* TEST 1: WHERE GeoLocation IS NOT NULL AND STDistance <= radiusMeters
\*         ORDER BY STDistance
NativeQuery(t) ==
    LET dist == RowDistances(t)
        keep == {i \in DOMAIN dist : dist[i] * 1000 <= radiusMillimeters}
    IN SelectOrdered(Len(t), keep, dist, 1, <<>>)

\* TEST 2 with the rectangle test alone: every row in the box is returned
BoundingBoxQueryBoxOnly(t) ==
    LET dist == RowDistances(t)
        keep == {i \in DOMAIN dist : STIntersectsBBox(t[i].GeoLocation)}
    IN SelectOrdered(Len(t), keep, dist, 1, <<>>)

\* TEST 2: ... AND GeoLocation.STIntersects(@bbox) = 1 AND STDistance <= ...
BoundingBoxQuery(t) ==
    LET dist == RowDistances(t)
        keep == {i \in DOMAIN dist : /\ STIntersectsBBox(t[i].GeoLocation)
                                      /\ dist[i] * 1000 <= radiusMillimeters}
    IN SelectOrdered(Len(t), keep, dist, 1, <<>>)

\* TEST 3: WHERE ZipCode IS NOT NULL HAVING 3959 * ACOS(...) <= RADIUS_MILES
\*         ORDER BY distance_miles
ExhaustiveQuery(t) ==
    LET dist == [i \in {j \in 1..Len(t) : t[j].ZipCode # <<>>} |->
                    CaseDistance(t[i].ZipCode)]
        keep == {i \in DOMAIN dist : dist[i] <= RADIUS_MILES * 100}
    IN SelectOrdered(Len(t), keep, dist, 1, <<>>)

-----------------------------------------------------------------------------
(* Radius search by center zip (lib/azure-spatial, known from its caller) *)

\* the coordinate each resolution stage gives for the center: the cache
\* entry, the remote lookup when the cache has no entry, the prefix table
CenterStages(cache, centerZip, r) ==
    LET zip5 == Zip5(centerZip) IN
    IF Len(zip5) < 3
    THEN [cached |-> Null, remote |-> Null, approx |-> Null]
    ELSE [cached |-> IF Has(cache, zip5) THEN OrNull(cache[zip5]) ELSE Null,
          remote |-> IF Has(cache, zip5) THEN Null
                     ELSE AfterFetch(cache, zip5, r).value,
          approx |-> getApproximateLocation(zip5)]

\* the first stage that gave a coordinate
ResolvedCenter(stages) ==
    IF stages.cached # Null THEN stages.cached
    ELSE IF stages.remote # Null THEN stages.remote
    ELSE stages.approx

\* a search that answers an unresolvable center with no rows
PlanOutcomeEmptyList(centerZip, stages, t) ==
    [kind |-> "SearchResult", zip |-> centerZip, stages |-> stages,
     rows |-> IF ResolvedCenter(stages) = Null THEN <<>> ELSE NativeQuery(t)]

\* findWithinRadius: a failure when no stage resolved the center, else the
\* rows of the native query
PlanOutcome(centerZip, stages, t) ==
    IF ResolvedCenter(stages) = Null
    THEN [kind |-> "QueryFailure", reason |-> "UnresolvableCenter",
          zip |-> centerZip, stages |-> stages]
    ELSE [kind |-> "SearchResult", zip |-> centerZip, stages |-> stages,
          rows |-> NativeQuery(t)]

-----------------------------------------------------------------------------
(* SpecRadius: runTests and radius searches against small tables *)

TableZips == {Z44256, Z44870, Z43014, Z10001}

\* zips no lookup and no prefix range gives a coordinate for
UnlocatedZips == {Z00000, Z12}

\* a row has a zip or none, and the centroid of its zip or no point
RowChoices ==
    {[ZipCode |-> <<>>, GeoLocation |-> NoGeo]}
    \cup {[ZipCode |-> z, GeoLocation |-> g] :
            z \in TableZips \cup UnlocatedZips, g \in {NoGeo}}
    \cup {[ZipCode |-> z, GeoLocation |-> Centroid(z)] : z \in TableZips}

Tables == UNION {[1..m -> RowChoices] : m \in 0..MaxTableRows}

CenterZips == {Z44289, Z00000, Z12}

InitRadius ==
    /\ zipCache \in {EmptyMap, MapSet(EmptyMap, Z00000, Null)}
    /\ disk = DiskMissing
    /\ inflight = <<>>
    /\ calls = NoCalls
    /\ last = [op |-> "none"]
    /\ flushed = EmptyMap
    /\ ImportIdle
    /\ RestIdle
    /\ table \in Tables
    /\ rpc = "test1"
    /\ result1 = <<>>
    /\ result2 = <<>>
    /\ result3 = <<>>
    /\ plan = [kind |-> "none"]

Test1 ==
    /\ rpc = "test1"
    /\ result1' = NativeQuery(table)
    /\ rpc' = "test2"
    /\ UNCHANGED <<table, result2, result3, plan>>
    /\ UNCHANGED <<cacheVars, importVars, restVars>>

Test2 ==
    /\ rpc = "test2"
    /\ result2' = BoundingBoxQuery(table)
    /\ rpc' = "test3"
    /\ UNCHANGED <<table, result1, result3, plan>>
    /\ UNCHANGED <<cacheVars, importVars, restVars>>

\* TEST 3; its HAVING has no GROUP BY, which the server may reject: the
\* query then throws and runTests ends without a third recordset
Test3 ==
    /\ rpc = "test3"
    /\ \E rejected \in BOOLEAN :
         IF rejected
         THEN rpc' = "failed" /\ UNCHANGED result3
         ELSE rpc' = "done" /\ result3' = ExhaustiveQuery(table)
    /\ UNCHANGED <<table, result1, result2, plan>>
    /\ UNCHANGED <<cacheVars, importVars, restVars>>

\* the one radius search of a run, around a center zip; r is what the remote
\* source answers if it is asked
RadiusSearch ==
    /\ plan.kind = "none"
    /\ \E centerZip \in CenterZips :
         \E r \in BranchResponses(Zip5(centerZip)) :
            LET stages == CenterStages(zipCache, centerZip, r) IN
            /\ plan' = PlanOutcome(centerZip, stages, table)
            /\ zipCache' = IF Len(centerZip) < 3 \/ Has(zipCache, Zip5(centerZip))
                           THEN zipCache
                           ELSE AfterFetch(zipCache, Zip5(centerZip), r).cache
    /\ UNCHANGED <<disk, inflight, calls, last, flushed>>
    /\ UNCHANGED <<table, rpc, result1, result2, result3>>
    /\ UNCHANGED <<importVars, restVars>>

NextRadius == Test1 \/ Test2 \/ Test3 \/ RadiusSearch

SpecRadius == InitRadius /\ [][NextRadius]_vars

\* C5: a radius search whose center no stage resolves answers with the
\* failure UnresolvableCenter and not with a list of rows.
C5_UnresolvableCenterFails ==
    (/\ plan.kind # "none"
     /\ plan.stages.cached = Null
     /\ plan.stages.remote = Null
     /\ plan.stages.approx = Null) =>
        /\ plan.kind = "QueryFailure"
        /\ plan.reason = "UnresolvableCenter"
        /\ "rows" \notin DOMAIN plan

\* the search around 00000 has failed
C5_Witness ==
    /\ plan.kind = "QueryFailure"
    /\ plan.zip = Z00000

\* C6: run on the same table, the native, the bounding-box and the
\* exhaustive query return the same set of rows (no modelled row lies
\* exactly at the radius).
C6_StrategiesAgree ==
    rpc = "done" =>
        /\ Range(result1) = Range(result2)
        /\ Range(result2) = Range(result3)

\* the rows of the table that have a point at most radiusMeters from the center
WithinRadius ==
    {i \in 1..Len(table) :
        /\ table[i].GeoLocation # NoGeo
        /\ STDistance(table[i].GeoLocation) * 1000 <= RADIUS_MILES * MillimetersPerMile}

\* C14: TEST 1 returns the rows that have a point within RADIUS_MILES *
\* 1609.344 meters of the center, each once, in order of non-decreasing
\* distance; around 44289 with radius 50 a row at Medina (44256) is
\* returned and a row at New York (10001) is not.
C14_NativeWithinRadiusOrdered ==
    rpc \in {"test2", "test3", "done", "failed"} =>
        /\ Range(result1) = WithinRadius
        /\ Len(result1) = Cardinality(WithinRadius)
        /\ \A j \in 1..(Len(result1) - 1) :
              STDistance(table[result1[j]].GeoLocation)
                  <= STDistance(table[result1[j + 1]].GeoLocation)
        /\ \A i \in 1..Len(table) :
              /\ table[i].GeoLocation = Centroid(Z44256) => i \in Range(result1)
              /\ table[i].GeoLocation = Centroid(Z10001) => i \notin Range(result1)

\* a table with a New York row before a Medina row: only the second is returned
C14_Witness ==
    /\ rpc = "done"
    /\ Len(table) = 2
    /\ table[1].GeoLocation = Centroid(Z10001)
    /\ table[2].GeoLocation = Centroid(Z44256)
    /\ result1 = <<2>>

\* C15: a row with a NULL GeoLocation is in neither the native nor the
\* bounding-box result; it is in the exhaustive result only if it has a zip
\* that resolves to a coordinate (here: by its prefix) and that coordinate
\* is within the radius.
C15_RowsWithoutPoint ==
    rpc = "done" =>
        \A i \in 1..Len(table) :
            table[i].GeoLocation = NoGeo =>
                /\ i \notin Range(result1)
                /\ i \notin Range(result2)
                /\ i \in Range(result3) =>
                       /\ table[i].ZipCode # <<>>
                       /\ getApproximateLocation(table[i].ZipCode) # Null
                       /\ CaseDistance(table[i].ZipCode) <= RADIUS_MILES * 100

\* a 44256 row without a point is returned by TEST 3 only, a 00000 row
\* without a point by no test
C15_Witness ==
    /\ rpc = "done"
    /\ \E i, j \in 1..Len(table) :
          /\ table[i] = [ZipCode |-> Z44256, GeoLocation |-> NoGeo]
          /\ i \in Range(result3)
          /\ i \notin Range(result1) \cup Range(result2)
          /\ table[j] = [ZipCode |-> Z00000, GeoLocation |-> NoGeo]
          /\ j \notin Range(result3)

\* C26: whatever the table, every row the bounding-box query of TEST 2
\* returns is a row the native query of TEST 1 returned for the same table.
C26_BoundingBoxSubsetOfNative ==
    rpc \in {"test3", "done", "failed"} => Range(result2) \subseteq Range(result1)

\* TEST 2 has returned a row within the radius and left out a row that is in
\* the rectangle but farther than the radius, as TEST 1 did
C26_Witness ==
    /\ rpc = "test3"
    /\ \E i, j \in 1..Len(table) :
          /\ i \in Range(result2)
          /\ table[j].GeoLocation # NoGeo
          /\ STIntersectsBBox(table[j].GeoLocation)
          /\ j \notin Range(result1) \cup Range(result2)

-----------------------------------------------------------------------------
(* SpecFunctions: getApproximateLocation and the distance expression of     *)
(* TEST 3 applied to arguments of a caller's choice                         *)

\* arguments of getApproximateLocation: every three-digit prefix, zips that
\* are short, longer, or not all digits
ApproxZips ==
    {<<Digits[a], Digits[b], Digits[c]>> : a, b, c \in 1..10}
    \cup {ZEmpty, Z12, Z44289, Z44289Plus4,
          <<"4", "4", "a">>, <<"a", "4", "4">>, <<"4", "a", "2", "8", "9">>}

\* the center of runTests and the four coordinates of the CASE of TEST 3,
\* in 1/100 degree
Coordinates ==
    <<[lat |-> 4101, lng |-> -8184],
      [lat |-> 4150, lng |-> -8170],
      [lat |-> 3996, lng |-> -8299],
      [lat |-> 3976, lng |-> -8616],
      [lat |-> 4000, lng |-> -8200]>>

\* 3959 * ACOS(COS(RADIANS(a.lat)) * COS(RADIANS(b.lat))
\*              * COS(RADIANS(b.lng) - RADIANS(a.lng))
\*              + SIN(RADIANS(a.lat)) * SIN(RADIANS(b.lat)))
\* for a = Coordinates[row], b = Coordinates[column], each operation in
\* IEEE 754 double precision, the result in its shortest decimal form
ACOS_MILES ==
    <<<<"5.899369716644287e-05", "34.63004111142134", "94.42521127780763",
        "243.18905004462474", "70.29296102427092">>,
      <<"34.63004111142134", "0.0", "126.03457491532673",
        "262.9287409562057", "104.82907226205002">>,
      <<"94.42521127780763", "126.03457491532673", "0.0",
        "168.69532636371778", "52.4903936700668">>,
      <<"243.18905004462474", "262.9287409562057", "168.69532636371778",
        "0.0", "221.1849933313969">>,
      <<"70.29296102427092", "104.82907226205002", "52.4903936700668",
        "221.1849933313969", "5.899369716644287e-05">>>>

\* the distance expression of TEST 3 with a as the center and b as the row
distanceMiles(a, b) ==
    ACOS_MILES[CHOOSE i \in 1..Len(Coordinates) : Coordinates[i] = a]
              [CHOOSE j \in 1..Len(Coordinates) : Coordinates[j] = b]

CacheIdle ==
    /\ zipCache = EmptyMap
    /\ disk = DiskMissing
    /\ inflight = <<>>
    /\ calls = NoCalls
    /\ last = [op |-> "none"]
    /\ flushed = EmptyMap

InitFunctions ==
    /\ CacheIdle
    /\ ImportIdle
    /\ RadiusIdle
    /\ RestIdle

\* the one call getApproximateLocation(zipCode) of a run
ApproxLookup ==
    /\ approxCoords.type = "none"
    /\ \E zipCode \in ApproxZips :
         /\ approxZip' = zipCode
         /\ approxCoords' = getApproximateLocation(zipCode)
    /\ UNCHANGED <<pointA, pointB, distance_miles>>
    /\ UNCHANGED <<cacheVars, importVars, radiusVars, routeVars, uiVars>>

\* the one evaluation of the distance expression of a run
Measure ==
    /\ distance_miles = "none"
    /\ \E a, b \in Range(Coordinates) :
         /\ pointA' = a
         /\ pointB' = b
         /\ distance_miles' = distanceMiles(a, b)
    /\ UNCHANGED <<approxZip, approxCoords>>
    /\ UNCHANGED <<cacheVars, importVars, radiusVars, routeVars, uiVars>>

NextFunctions == ApproxLookup \/ Measure

SpecFunctions == InitFunctions /\ [][NextFunctions]_vars

RangesContaining(p) ==
    {i \in 1..Len(ZIP_RANGES) :
        RangeStart(ZIP_RANGES[i]) <= p /\ p <= RangeEnd(ZIP_RANGES[i])}

\* C19: getApproximateLocation answers a zip of at least 3 characters whose
\* first three parse to an integer p with the coordinate of a range
\* [start, end] that has start <= p <= end, and with null when there is no
\* such range, when the zip is shorter, and when the prefix is not a number.
C19_ApproximateLocation ==
    LET p == ParseInt(Substring0(approxZip, 3)) IN
    approxCoords.type # "none" =>
        IF Len(approxZip) < 3 \/ IsNaNInt(p) \/ RangesContaining(p) = {}
        THEN approxCoords = Null
        ELSE \E i \in RangesContaining(p) : approxCoords = RangeCoords(ZIP_RANGES[i])

\* 44289-1234 got the coordinate of 440-449; its prefix is not the end of
\* a range
C19_Witness ==
    /\ approxZip = Z44289Plus4
    /\ approxCoords = [type |-> "coords", lat |-> "41.5", lng |-> "-81.7"]

\* the scan of the table from its last entry to its first
RECURSIVE LastRange(_, _)
LastRange(prefix, i) ==
    IF i < 1 THEN Null
    ELSE IF prefix >= RangeStart(ZIP_RANGES[i]) /\ prefix <= RangeEnd(ZIP_RANGES[i])
    THEN RangeCoords(ZIP_RANGES[i])
    ELSE LastRange(prefix, i - 1)

\* C20: every range of the table has start <= end, and the prefix looked
\* up (each of 000..999 in some run) is in at most one range, so no two
\* ranges overlap; scanning the table backwards gives the answer the lookup
\* gave.
C20_RangesDisjoint ==
    /\ \A i \in 1..Len(ZIP_RANGES) :
          RangeStart(ZIP_RANGES[i]) <= RangeEnd(ZIP_RANGES[i])
    /\ LET p == ParseInt(Substring0(approxZip, 3)) IN
       (approxCoords.type # "none" /\ Len(approxZip) >= 3 /\ ~IsNaNInt(p)) =>
           /\ Cardinality(RangesContaining(p)) <= 1
           /\ approxCoords = LastRange(p, Len(ZIP_RANGES))

\* prefix 399, the end of 398-399 and next to 400-427, was looked up
C20_Witness ==
    /\ approxZip = <<"3", "9", "9">>
    /\ approxCoords = [type |-> "coords", lat |-> "38.2", lng |-> "-85.7"]

-----------------------------------------------------------------------------
(* Properties of the cache operations, checked under Spec *)

\* the step is a call getZipCoordinates(z)
CallStep(z) ==
    /\ inflight = <<>>
    /\ last'.op \in {"resolve", "fetch"}
    /\ last'.zip = z

\* C1: a call of getZipCoordinates for a zip whose 5-character key has an
\* entry in zipCache (coordinates or null) issues no remote call and
\* returns the entry, whatever calls came before.
C1_CachedZipNotFetched ==
    [][\A z \in CallZips :
          (Zip5(z) \in DOMAIN zipCache /\ CallStep(z)) =>
              /\ calls' = calls
              /\ inflight' = <<>>
              /\ last'.op = "resolve"
              /\ last'.value = zipCache[Zip5(z)]]_vars

\* a zip fetched once, cached as null, and resolved again from the cache
C1_Witness ==
    /\ last.op = "resolve"
    /\ ~last.remote
    /\ last.value = Null
    /\ calls[Zip5(last.zip)] = 1

\* a 200 answer whose body is not a usable place list
MalformedBody(b) ==
    \/ b.kind \in {"invalid", "null"}
    \/ /\ b.kind = "object"
       /\ \/ Len(b.places) = 0
          \/ ParseFloat(b.places[1].latitude) = NaN
          \/ ParseFloat(b.places[1].longitude) = NaN

\* timeout, network failure or malformed payload
TransientError(r) ==
    \/ r.fetch \in {"abort", "error"}
    \/ r.fetch = "response" /\ r.ok /\ MalformedBody(r.body)

\* the remote source said the zip does not exist
NotFound(r) == r.fetch = "response" /\ r.status = 404

\* getZipCoordinates has just returned from a remote lookup
RemoteReturned == last.op = "resolve" /\ last.remote

\* C2: a remote lookup that ends in a transient error returns null and
\* leaves zipCache without an entry for the zip.
C2_TransientErrorNotCached ==
    (RemoteReturned /\ TransientError(last.response)) =>
        /\ last.value = Null
        /\ Zip5(last.zip) \notin DOMAIN zipCache

\* C3: a not-found answer stores null and returns null, and null is stored
\* for a not-found answer only.
C3_NullOnlyForNotFound ==
    RemoteReturned =>
        LET zip5 == Zip5(last.zip)
            storedNull == zip5 \in DOMAIN zipCache /\ zipCache[zip5] = Null IN
        /\ NotFound(last.response) => (storedNull /\ last.value = Null)
        /\ storedNull => NotFound(last.response)

\* C7: a zip of fewer than 3 characters is answered null with no remote
\* call and no cache entry.
C7_ShortZipUntouched ==
    \A z \in CallZips :
        Len(z) < 3 =>
            /\ calls[Zip5(z)] = 0
            /\ Zip5(z) \notin DOMAIN zipCache
            /\ (last.op \in {"resolve", "fetch"} /\ last.zip = z) =>
                   (last.op = "resolve" /\ last.value = Null)

\* obj.f as JavaScript reads it
Prop(obj, f) == IF f \in DOMAIN obj THEN obj[f] ELSE Undefined

\* two cache values are the same null or the same coordinates
SameEntry(a, b) ==
    \A f \in {"type", "lat", "lng", "city", "state"} : Prop(a, f) = Prop(b, f)

SameMap(m1, m2) ==
    /\ DOMAIN m1 = DOMAIN m2
    /\ \A k \in DOMAIN m1 : SameEntry(m1[k], m2[k])

\* C8: saving the map and loading the file into an empty map gives the
\* same map back.
C8_SaveLoadRoundTrip ==
    SameMap(LoadOutcome(EmptyMap, SavedDisk(zipCache, disk), FALSE).cache, zipCache)

\* C9: loadZipCache on a missing or corrupt file throws nothing and leaves
\* the empty map empty.
C9_LoadToleratesBadStore ==
    [][(last'.op = "load" /\ disk.kind # "object" /\ zipCache = EmptyMap) =>
          (~last'.threw /\ zipCache' = EmptyMap /\ disk' = disk)]_vars

\* loadZipCache has run on a file JSON.parse rejects
C9_Witness ==
    /\ last.op = "load"
    /\ disk.kind = "unparsable"
    /\ zipCache = EmptyMap

\* C10: after saveZipCache the file holds the entries of the map and no
\* others: what the file held before is replaced, not merged.
C10_SaveOverwrites ==
    [][(last'.op = "save" /\ ~last'.threw) =>
          /\ disk'.kind = "object"
          /\ DOMAIN disk'.data = DOMAIN zipCache
          /\ \A k \in DOMAIN zipCache : disk'.data[k] = StringifyEntry(zipCache[k])]_vars

\* a save that dropped a key the file held before
C10_Witness ==
    /\ last.op = "save"
    /\ ~last.threw
    /\ last.dropped # {}
    /\ StoredKeys(disk) # {}

\* C11: whatever the interleaving of saveZipCache with calls of
\* getZipCoordinates and their zipCache.set, the file holds the text of the
\* whole map as it was at one moment, the last successful saveZipCache.
C11_FlushPersistsSnapshot ==
    disk.kind = "object" => disk = DiskObject(StringifyCache(flushed))

\* a non-empty map was saved while a getZipCoordinates call awaited its fetch
C11_Witness ==
    /\ last.op = "save"
    /\ ~last.threw
    /\ inflight # <<>>
    /\ DOMAIN zipCache # {}
    /\ disk = DiskObject(StringifyCache(zipCache))

\* the answer the remote source gives for a zip that does not exist
NotFoundResponse ==
    [fetch |-> "response", ok |-> FALSE, status |-> 404, body |-> [kind |-> "invalid"]]

\* C12: what getZipCoordinates returns after a timeout or network failure
\* differs from what it returns for a zip confirmed invalid (a not-found
\* answer), so its caller can tell the two apart.
C12_InvalidDistinctFromTransient ==
    (RemoteReturned /\ last.response.fetch \in {"abort", "error"}) =>
        last.value # AfterFetch(EmptyMap, Zip5(last.zip), NotFoundResponse).value

-----------------------------------------------------------------------------
(* SpecProfessions: GET /api/professions and its module-level cache *)

\* seconds a cached list is served
CACHE_DURATION == 300

\* Date.now() is read in steps of this many milliseconds
TickMillis == 100000

\* steps of the clock in one run
MaxTicks == 4

\* calls of db.getProfessionTypes() in one run
MaxDbReads == 3

\* what db.getProfessionTypes() may resolve to; an empty array is a list too
ProfessionLists == {<<>>, <<"RN">>, <<"LPN", "RN">>}

\* a string[] held in cachedProfessions
List(items) == [type |-> "list", items |-> items]

\* the condition with the window closed at its end
CacheFreshInclusive(now) ==
    /\ cachedProfessions # Null
    /\ now - cacheTimestamp <= CACHE_DURATION * 1000

\* cachedProfessions && now - cacheTimestamp < CACHE_DURATION * 1000
CacheFresh(now) ==
    /\ cachedProfessions # Null
    /\ now - cacheTimestamp < CACHE_DURATION * 1000

\* the body and status of the three responses
ProfessionsResponse(data, cached) ==
    [status |-> 200, success |-> TRUE, data |-> data, count |-> Len(data),
     cached |-> cached]

ErrorResponse ==
    [status |-> 500, success |-> FALSE, error |-> "Failed to fetch professions"]

\* requests without its i-th element
Without(seq, i) ==
    [k \in 1..(Len(seq) - 1) |-> IF k < i THEN seq[k] ELSE seq[k + 1]]

InitProfessions ==
    /\ CacheIdle
    /\ ImportIdle
    /\ RadiusIdle
    /\ FunctionsIdle
    /\ RouteIdle
    /\ UiIdle

\* GET up to its return from the cache or to its await of the database
GetProfessions ==
    /\ UNCHANGED <<cacheVars, importVars, radiusVars, functionVars, uiVars>>
    /\ LET now == clock
       IN  IF CacheFresh(now)
           THEN /\ response' = ProfessionsResponse(cachedProfessions.items, TRUE)
                /\ UNCHANGED <<requests, dbReads>>
           ELSE /\ dbReads < MaxDbReads
                /\ requests' = Append(requests, now)
                /\ dbReads' = dbReads + 1
                /\ UNCHANGED response
    /\ UNCHANGED <<clock, cachedProfessions, cacheTimestamp, cachedAt>>

\* db.getProfessionTypes() of the i-th waiting request resolves or rejects
\* and GET runs to its return
GetProfessionsReturn ==
    /\ UNCHANGED <<cacheVars, importVars, radiusVars, functionVars, uiVars>>
    /\ \E i \in 1..Len(requests) :
        /\ requests' = Without(requests, i)
        /\ \/ \E professions \in ProfessionLists :
                /\ cachedProfessions' = List(professions)
                /\ cacheTimestamp' = requests[i]
                /\ cachedAt' = clock
                /\ response' = ProfessionsResponse(professions, FALSE)
           \/ /\ response' = ErrorResponse
              /\ UNCHANGED <<cachedProfessions, cacheTimestamp, cachedAt>>
    /\ UNCHANGED <<clock, dbReads>>

\* time passes on the server
Tick ==
    /\ UNCHANGED <<cacheVars, importVars, radiusVars, functionVars, uiVars>>
    /\ clock < MaxTicks * TickMillis
    /\ clock' = clock + TickMillis
    /\ UNCHANGED <<cachedProfessions, cacheTimestamp, cachedAt, requests,
                   response, dbReads>>

NextProfessions == GetProfessions \/ GetProfessionsReturn \/ Tick

SpecProfessions == InitProfessions /\ [][NextProfessions]_vars

\* a step in which a request arrives, and one in which a database read ends
RequestArrives == clock' = clock /\ Len(requests') >= Len(requests)

ReadEnds == Len(requests') < Len(requests)

\* the request is answered from the cache and the database is not called
ServedFromCache ==
    /\ dbReads' = dbReads
    /\ requests' = requests
    /\ response'.status = 200
    /\ response'.cached = TRUE
    /\ response'.data = cachedProfessions.items
    /\ UNCHANGED <<cachedProfessions, cacheTimestamp>>

\* the read succeeded: the cache holds what was read and the answer says so
CacheReplaced ==
    /\ response'.status = 200
    /\ response'.cached = FALSE
    /\ cachedProfessions' = List(response'.data)

\* C18 as it holds: a request is served from the cache, with cached = true
\* and no database call, exactly when a list is cached and the request that
\* read it started less than 300 s earlier; otherwise the database is called
\* once, and the read either replaces the cache, stamped with the start of
\* its request, and answers cached = false, or fails with status 500 and
\* leaves the cache as it was.
C18_CacheWindowFromRequestStart ==
    [][ /\ RequestArrives =>
            IF cachedProfessions # Null /\ clock - cacheTimestamp < 300000
            THEN ServedFromCache
            ELSE /\ dbReads' = dbReads + 1
                 /\ requests' = Append(requests, clock)
                 /\ UNCHANGED <<cachedProfessions, cacheTimestamp, response>>
        /\ ReadEnds =>
            \/ /\ CacheReplaced
               /\ \E i \in 1..Len(requests) :
                    /\ requests' = Without(requests, i)
                    /\ cacheTimestamp' = requests[i]
            \/ /\ response' = ErrorResponse
               /\ UNCHANGED <<cachedProfessions, cacheTimestamp>>
      ]_vars

\* a request was answered from a list whose read started 200 s before, and
\* the clock had advanced while that read was awaited
C18_Witness ==
    /\ response.status = 200
    /\ response.cached = TRUE
    /\ cachedProfessions # Null
    /\ clock - cacheTimestamp = 200000
    /\ cachedAt > cacheTimestamp
    /\ dbReads = 1

\* C18: GET /api/professions serves from its in-memory cache, without
\* calling the database and with meta.cached = true, whenever a list was
\* cached less than 300 seconds before the request; otherwise it reads the
\* database, replaces the cache and answers with meta.cached = false.
C18_ServedWithin300Seconds ==
    [][ /\ RequestArrives =>
            IF cachedProfessions # Null /\ clock - cachedAt < 300000
            THEN ServedFromCache
            ELSE dbReads' = dbReads + 1
        /\ ReadEnds => CacheReplaced
      ]_vars

-----------------------------------------------------------------------------
(* Properties of getZipCoordinates and its callers: delay, sequencing,      *)
(* effects on the file, stability of entries, keys                          *)

\* C21: under Spec every call of getZipCoordinates is an isolated single
\* lookup, and no such lookup, cache hit or remote call, waits the 100 ms
\* inter-request delay (the delay belongs to batch resolution only).
C21_NoDelayOnSingleLookup ==
    last.op \in {"fetch", "resolve"} => last.delay = 0

\* C30: the import loop attempts the rows of the CSV one by one in file
\* order, each once; a failed INSERT is counted in errors and the loop goes
\* on; after each row inserted + errors and withGeo + withoutGeo both equal
\* the number of rows attempted, which at the end is the number of rows.
C30_RowsOnceInOrder ==
    pc \in {"rows", "verify", "done"} =>
        /\ Len(inserts) = rowIndex
        /\ rowIndex <= Len(records)
        /\ \A i \in 1..Len(inserts) :
              inserts[i].ZipCode = Substring0(records[i], 10)
        /\ inserted + errors = rowIndex
        /\ withGeo + withoutGeo = rowIndex
        /\ pc \in {"verify", "done"} => rowIndex = Len(records)
        /\ pc = "rows" => rowIndex < Len(records)

\* three rows in two batches, one INSERT failed, the import went to its end
C30_Witness ==
    /\ pc = "done"
    /\ Len(records) = 3
    /\ Len(inserts) = 3
    /\ errors = 1
    /\ inserted = 2
    /\ withGeo >= 1
    /\ withoutGeo >= 1

\* C22: in a run of importData a remote call starts only when none is
\* outstanding, so at most one is outstanding at any moment, and no zip
\* receives more than one remote call in the run.
C22_BatchSequential ==
    [][ /\ Len(inflight) <= 1
        /\ (\E k \in Keys : calls'[k] > calls[k]) =>
              /\ inflight = <<>>
              /\ pc = "prefetch"
              /\ \A k \in Keys : calls'[k] <= 1
      ]_vars

\* the loop has ended after two remote calls, one of which gave no coordinates
C22_Witness ==
    /\ pc = "save"
    /\ TotalCalls = 2
    /\ failed = 1
    /\ fetched = 1
    /\ inflight = <<>>

\* C23: in a run of importData the file changes only in the saveZipCache
\* step, which is taken only when the whole pre-fetch loop is over; a call
\* of getZipCoordinates, whatever it returns, changes at most the map.
C23_FileChangesOnlyInFlush ==
    [][ /\ disk' # disk => (pc = "save" /\ last'.op = "save")
        /\ pc \in {"prefetch", "await"} => disk' = disk
        /\ (pc # "save" /\ pc' = "save") =>
              (pc \in {"prefetch", "await"} /\ cursor' = Len(uncachedZips) + 1)
        /\ pc = "save" => pc' \in {"connect", "rejected"}
      ]_vars

\* two zips were resolved and then written to the file by the one save
C23_Witness ==
    /\ pc = "connect"
    /\ last.op = "save"
    /\ ~last.threw
    /\ Cardinality(DOMAIN zipCache) >= 2
    /\ Len(uncachedZips) >= 2
    /\ disk = DiskObject(StringifyCache(zipCache))

\* C24: a step of a run other than loadZipCache (a resolve, its answer, a
\* flush) keeps every entry the map has: the key stays and its value is the
\* same.
C24_EntriesStable ==
    [][ last'.op \in {"fetch", "resolve", "save"} =>
            \A k \in DOMAIN zipCache :
                k \in DOMAIN zipCache' /\ zipCache'[k] = zipCache[k]
      ]_vars

\* a remote answer has added a second entry to a map that was flushed before
C24_Witness ==
    /\ last.op = "resolve"
    /\ last.remote
    /\ Cardinality(DOMAIN zipCache) = 2
    /\ Cardinality(DOMAIN flushed) = 1
    /\ \A k \in DOMAIN flushed : k \in DOMAIN zipCache /\ zipCache[k] = flushed[k]

\* a key of five characters, each a digit
FiveDigits(k) == Len(k) = 5 /\ \A i \in 1..Len(k) : IsDigit(k[i])

\* C25: every key the map holds and every key sent to the remote source has
\* five digits (longer input cut to five, shorter input padded to five);
\* taking the key of a key gives the same key, and the key the row loop
\* derives from a CSV cell is the key the pre-fetch derived from it.
C25_KeysNormalized ==
    /\ \A k \in DOMAIN zipCache : FiveDigits(k)
    /\ \A k \in Keys : calls[k] > 0 => FiveDigits(k)
    /\ \A z \in CsvZips :
          /\ Zip5(Zip5(z)) = Zip5(z)
          /\ Zip5(Substring0(z, 10)) = Zip5(z)

-----------------------------------------------------------------------------
(* Concurrent requests of GET /api/professions *)

\* C27: whatever the interleaving of concurrent GET requests, no step lowers
\* cacheTimestamp: a request that started earlier does not replace what a
\* request that started later has cached.
C27_TimestampMonotone ==
    [][cacheTimestamp' >= cacheTimestamp]_vars

-----------------------------------------------------------------------------
(* SpecLoading: LoadingManager and the search store's isLoading *)

\* searchParams.toString() of the URLs a visit goes through
Params == {"", "q=rn", "q=rn&zip=44256"}

\* the dependencies the effects compare: searchParams and isLoading as rendered
Deps == [searchParams |-> searchParams, isLoading |-> isLoading]

InitLoading ==
    /\ CacheIdle
    /\ ImportIdle
    /\ RadiusIdle
    /\ FunctionsIdle
    /\ RouteIdle
    /\ ModalIdle
    /\ lmMounted = FALSE
    /\ isLoading \in BOOLEAN
    /\ searchParams \in Params
    /\ previousSearchParams = ""
    /\ seenDeps = [searchParams |-> "", isLoading |-> FALSE]
    /\ rafOuter = FALSE
    /\ rafInner = FALSE

\* LoadingManager mounts: first render and its three effects, in order; the
\* ref of the new instance starts as ''
Mount ==
    /\ UNCHANGED <<cacheVars, importVars, radiusVars, functionVars, routeVars,
                   modalVars>>
    /\ ~lmMounted
    /\ lmMounted' = TRUE
    /\ rafOuter' = (rafOuter \/ (isLoading /\ searchParams # ""))
    /\ previousSearchParams' = searchParams
    /\ isLoading' = FALSE
    /\ seenDeps' = Deps
    /\ UNCHANGED <<searchParams, rafInner>>

\* LoadingManager unmounts: the cleanup of the third effect
Unmount ==
    /\ UNCHANGED <<cacheVars, importVars, radiusVars, functionVars, routeVars,
                   modalVars>>
    /\ lmMounted
    /\ lmMounted' = FALSE
    /\ isLoading' = FALSE
    /\ UNCHANGED <<searchParams, previousSearchParams, seenDeps, rafOuter,
                   rafInner>>

\* some component of the page calls setIsLoading(true)
SetIsLoadingTrue ==
    /\ UNCHANGED <<cacheVars, importVars, radiusVars, functionVars, routeVars,
                   modalVars>>
    /\ ~isLoading
    /\ isLoading' = TRUE
    /\ UNCHANGED <<lmMounted, searchParams, previousSearchParams, seenDeps,
                   rafOuter, rafInner>>

\* a navigation completes with other search parameters
Navigate ==
    /\ UNCHANGED <<cacheVars, importVars, radiusVars, functionVars, routeVars,
                   modalVars>>
    /\ \E p \in Params \ {searchParams} : searchParams' = p
    /\ UNCHANGED <<lmMounted, isLoading, previousSearchParams, seenDeps,
                   rafOuter, rafInner>>

\* a re-render after searchParams or isLoading changed: the params-change
\* effect, then the effect that stores searchParams in the ref
RunEffects ==
    /\ UNCHANGED <<cacheVars, importVars, radiusVars, functionVars, routeVars,
                   modalVars>>
    /\ lmMounted
    /\ seenDeps # Deps
    /\ LET clear == isLoading /\ searchParams # previousSearchParams
           paramsChanged == seenDeps.searchParams # searchParams
       IN  /\ rafOuter' = (rafOuter \/ clear)
           /\ previousSearchParams' =
                 IF clear \/ paramsChanged THEN searchParams
                 ELSE previousSearchParams
    /\ seenDeps' = Deps
    /\ UNCHANGED <<lmMounted, isLoading, searchParams, rafInner>>

\* an animation frame: the queued inner callbacks call setIsLoading(false),
\* the queued outer ones queue their inner callback for the next frame
Frame ==
    /\ UNCHANGED <<cacheVars, importVars, radiusVars, functionVars, routeVars,
                   modalVars>>
    /\ rafOuter \/ rafInner
    /\ isLoading' = IF rafInner THEN FALSE ELSE isLoading
    /\ rafInner' = rafOuter
    /\ rafOuter' = FALSE
    /\ UNCHANGED <<lmMounted, searchParams, previousSearchParams, seenDeps>>

NextLoading ==
    Mount \/ Unmount \/ SetIsLoadingTrue \/ Navigate \/ RunEffects \/ Frame

SpecLoading == InitLoading /\ [][NextLoading]_vars

\* React runs the effects of every committed render, however fast the next
\* change follows, and the browser runs the queued animation-frame
\* callbacks; nothing obliges a navigation to happen
FairSpecLoading ==
    SpecLoading /\ SF_vars(RunEffects) /\ WF_vars(Frame)

\* C28: while LoadingManager is mounted, isLoading set to true is eventually
\* false again: the overlay does not stay up forever.
C28_LoadingEventuallyCleared ==
    (lmMounted /\ isLoading) ~> ~isLoading

-----------------------------------------------------------------------------
(* SpecModal: RequestTalentModal under InjectTalentModal *)

\* times the Request Talent button opens a modal in one visit
MaxOpens == 3

\* POSTs in flight plus close timers not yet run
MaxPending == 3

\* what await fetch('/api/request-talent') ends in
PostOutcomes == {"ok", "notOk", "threw"}

InitModal ==
    /\ CacheIdle
    /\ ImportIdle
    /\ RadiusIdle
    /\ FunctionsIdle
    /\ RouteIdle
    /\ LoadingIdle
    /\ ModalIdle

\* the useState values of a RequestTalentModal as it mounts (also kept while
\* none is mounted)
FreshModal ==
    /\ isSubmitting' = FALSE
    /\ status' = "idle"

\* InjectTalentModal: onClick={() => setOpen(true)}; a new RequestTalentModal
\* instance mounts
OpenModal ==
    /\ UNCHANGED <<cacheVars, importVars, radiusVars, functionVars, routeVars,
                   loadingVars>>
    /\ ~open
    /\ instance < MaxOpens
    /\ open' = TRUE
    /\ instance' = instance + 1
    /\ FreshModal
    /\ UNCHANGED <<posts, closeTimers>>

\* the close button: onClose() is setOpen(false), the instance unmounts; its
\* fetch, if any, goes on
CloseClick ==
    /\ UNCHANGED <<cacheVars, importVars, radiusVars, functionVars, routeVars,
                   loadingVars>>
    /\ open
    /\ open' = FALSE
    /\ FreshModal
    /\ UNCHANGED <<instance, posts, closeTimers>>

\* handleSubmit up to await fetch: the submit button is enabled only while
\* isSubmitting is false
Submit ==
    /\ UNCHANGED <<cacheVars, importVars, radiusVars, functionVars, routeVars,
                   loadingVars>>
    /\ open
    /\ ~isSubmitting
    /\ Len(posts) + closeTimers < MaxPending
    /\ isSubmitting' = TRUE
    /\ status' = "idle"
    /\ posts' = Append(posts, instance)
    /\ UNCHANGED <<open, instance, closeTimers>>

\* handleSubmit after the await, for the i-th POST in flight: the state
\* setters act only if the instance that issued it is still mounted, the
\* timer is set in any case
PostReturns ==
    /\ UNCHANGED <<cacheVars, importVars, radiusVars, functionVars, routeVars,
                   loadingVars>>
    /\ \E i \in 1..Len(posts) :
         \E outcome \in PostOutcomes :
            /\ posts' = Without(posts, i)
            /\ closeTimers' = IF outcome = "ok" THEN closeTimers + 1 ELSE closeTimers
            /\ IF open /\ posts[i] = instance
               THEN /\ status' = IF outcome = "ok" THEN "success" ELSE "error"
                    /\ isSubmitting' = FALSE
               ELSE UNCHANGED <<status, isSubmitting>>
    /\ UNCHANGED <<open, instance>>

\* a timer set by setTimeout(() => onClose(), 1200) fires: setOpen(false)
CloseTimer ==
    /\ UNCHANGED <<cacheVars, importVars, radiusVars, functionVars, routeVars,
                   loadingVars>>
    /\ closeTimers > 0
    /\ closeTimers' = closeTimers - 1
    /\ open' = FALSE
    /\ FreshModal
    /\ UNCHANGED <<instance, posts>>

NextModal == OpenModal \/ CloseClick \/ Submit \/ PostReturns \/ CloseTimer

SpecModal == InitModal /\ [][NextModal]_vars

\* C29: at most one POST to /api/request-talent is in flight at any time;
\* while a modal is open its isSubmitting is true exactly while a POST it
\* sent is in flight, and its status is success or error only once that
\* POST has returned.
C29_OnePostInFlight ==
    /\ Len(posts) <= 1
    /\ open => (isSubmitting <=> instance \in Range(posts))
    /\ status # "idle" => ~isSubmitting

====
